---- MODULE Spec2Model ----
(***************************************************************************)
(* A model of the document-build scripts generate_latex.py,                *)
(* expand_latex.py and latex_processor.py.                                 *)
(*                                                                         *)
(* Text is modelled character by character: a text is a sequence of        *)
(* one-character strings, so the regular expressions of the scripts are    *)
(* modelled by what they match on the characters.                          *)
(***************************************************************************)
EXTENDS Integers, Sequences, FiniteSets, TLC

VARIABLES
    ideas,      \* the content root directory: [exists, entries]
    tex,        \* the file named by input_file: [exists, text]
    files,      \* every other file, by path: [exists, text]
    input_file, \* sys.argv[1]
    out_file,   \* the file named by output_file: [exists, text]
    pc,         \* the position of main()
    exit_code,  \* the exit status of the last finished run (-1: none yet)
    content,    \* main's local: the text handed to expand_input
    stack,      \* the call stack of expand_input / replace_input
    status,     \* of the expansion: "idle", "running", "returned", "RecursionError"
    result,     \* the value returned by the outermost expand_input
    repl_log,   \* the values returned by replace_input so far, in order
    stdout,     \* what was printed
    parts,      \* the last value returned by scan_ideas_directory
    runs,       \* how many runs of main() have been started
    tex_hist    \* the input file as it was at first and after each successful
                \* structure update

vars == <<ideas, tex, files, input_file, out_file, pc, exit_code, content,
          stack, status, result, repl_log, stdout, parts, runs, tex_hist>>

----------------------------------------------------------------------------
(* Characters and literal texts *)

NL == "\n"
SP == " "
BS == "\\"

KwInput == <<BS, "i", "n", "p", "u", "t">>
TexExt == <<".", "t", "e", "x">>
TocAnchor ==
    <<BS, "t", "a", "b", "l", "e", "o", "f", "c", "o", "n", "t", "e", "n", "t", "s">>
EndAnchor ==
    <<BS, "e", "n", "d", "{", "d", "o", "c", "u", "m", "e", "n", "t", "}">>
KwPart == <<BS, "p", "a", "r", "t">>
KwChapter == <<BS, "c", "h", "a", "p", "t", "e", "r">>
IdeasPrefix == <<"i", "d", "e", "a", "s", "/">>
NotFoundPrefix ==
    <<"%", SP, "F", "i", "l", "e", SP, "n", "o", "t", SP, "f", "o", "u", "n", "d", ":", SP>>

\* \s of the re module, on the characters the model uses
IsSpace(c) == c \in {SP, NL, "\t"}

\* ord(c), on the characters that occur in file names of the model
CodePoint(c) ==
    CASE c = NL -> 10
      [] c = SP -> 32
      [] c = "." -> 46
      [] c = "/" -> 47
      [] c = "B" -> 66
      [] c = "a" -> 97
      [] c = "b" -> 98
      [] c = "c" -> 99
      [] c = "d" -> 100
      [] c = "e" -> 101
      [] c = "n" -> 110
      [] c = "p" -> 112
      [] c = "q" -> 113
      [] c = "t" -> 116
      [] c = "x" -> 120
      [] OTHER -> 200

\* s[i:i+len(lit)] == lit, with i counted from 1
IsAt(s, i, lit) ==
    /\ i >= 1
    /\ i + Len(lit) - 1 <= Len(s)
    /\ \A k \in 1..Len(lit) : s[i + k - 1] = lit[k]

EndsWith(s, suf) ==
    /\ Len(s) >= Len(suf)
    /\ SubSeq(s, Len(s) - Len(suf) + 1, Len(s)) = suf

Min(S) == CHOOSE x \in S : \A y \in S : x <= y
Max(S) == CHOOSE x \in S : \A y \in S : x >= y

\* str < str of Python: lexicographic by code point
StrLess(a, b) ==
    LET n == IF Len(a) < Len(b) THEN Len(a) ELSE Len(b)
        diff == {i \in 1..n : a[i] # b[i]}
    IN  IF diff = {}
        THEN Len(a) < Len(b)
        ELSE CodePoint(a[Min(diff)]) < CodePoint(b[Min(diff)])

RECURSIVE Concat(_)
Concat(ss) == IF ss = <<>> THEN <<>> ELSE Head(ss) \o Concat(Tail(ss))

\* "\n".join(lines)
RECURSIVE JoinLines(_)
JoinLines(lines) ==
    IF lines = <<>> THEN <<>>
    ELSE IF Len(lines) = 1 THEN lines[1]
    ELSE lines[1] \o <<NL>> \o JoinLines(Tail(lines))

Perms(S) ==
    {f \in [1..Cardinality(S) -> S] : \A i, j \in 1..Cardinality(S) : f[i] = f[j] => i = j}

NoFile == [exists |-> FALSE, text |-> <<>>]
File(t) == [exists |-> TRUE, text |-> t]

----------------------------------------------------------------------------
(* pathlib and os.path *)

\* PurePath.suffix: the last "." and what follows, unless the name starts or
\* ends with that "."
PathSuffix(name) ==
    LET dots == {i \in 1..Len(name) : name[i] = "."}
    IN  IF dots # {} /\ 1 < Max(dots) /\ Max(dots) < Len(name)
        THEN SubSeq(name, Max(dots), Len(name))
        ELSE <<>>

\* PurePath.stem
PathStem(name) ==
    LET dots == {i \in 1..Len(name) : name[i] = "."}
    IN  IF dots # {} /\ 1 < Max(dots) /\ Max(dots) < Len(name)
        THEN SubSeq(name, 1, Max(dots) - 1)
        ELSE name

\* os.path.join(a, b) of posixpath
os_path_join(a, b) ==
    IF Len(b) > 0 /\ b[1] = "/" THEN b
    ELSE IF a = <<>> \/ a[Len(a)] = "/" THEN a \o b
    ELSE a \o <<"/">> \o b

\* os.path.dirname(p) of posixpath
os_path_dirname(p) ==
    LET slashes == {i \in 1..Len(p) : p[i] = "/"}
        head == IF slashes = {} THEN <<>> ELSE SubSeq(p, 1, Max(slashes))
        keep == {i \in 1..Len(head) : head[i] # "/"}
    IN  IF head # <<>> /\ keep # {} THEN SubSeq(head, 1, Max(keep)) ELSE head

----------------------------------------------------------------------------
(* scan_ideas_directory *)

\* list.sort(key=lambda x: x.name): a stable insertion of each entry in turn
RECURSIVE InsertByName(_, _)
InsertByName(sorted, e) ==
    IF sorted = <<>> THEN <<e>>
    ELSE IF StrLess(e.name, Head(sorted).name) THEN <<e>> \o sorted
    ELSE <<Head(sorted)>> \o InsertByName(Tail(sorted), e)

\* the listing left as the directory iteration gave it
UnsortedByName(listing) == listing

RECURSIVE SortByName(_)
SortByName(listing) ==
    IF listing = <<>> THEN <<>>
    ELSE InsertByName(SortByName(SubSeq(listing, 1, Len(listing) - 1)),
                      listing[Len(listing)])

\* the chapters of one part directory, listed in the order sub_listing
ChaptersOf(sub_listing) ==
    LET IsTex(f) == f.kind = "file" /\ PathSuffix(f.name) = TexExt
        tex_files == SortByName(SelectSeq(sub_listing, IsTex))
    IN  [i \in 1..Len(tex_files) |-> PathStem(tex_files[i].name)]

\* The directory iterations (iterdir) of one scan: an order of the root's
\* entries and, for every entry, an order of its children.
Listings(dir) ==
    {l \in [root : Perms(dir.entries),
            sub : [{e.name : e \in dir.entries} ->
                      UNION {Perms(e.children) : e \in dir.entries}]] :
        \A e \in dir.entries : l.sub[e.name] \in Perms(e.children)}

\* the returned list of (part_name, chapters), for the iteration orders l
scan_ideas_directory(dir, l) ==
    LET IsDir(d) == d.kind = "dir"
        part_dirs == SortByName(SelectSeq(l.root, IsDir))
        all == [i \in 1..Len(part_dirs) |->
                   [part_name |-> part_dirs[i].name,
                    chapters |-> ChaptersOf(l.sub[part_dirs[i].name])]]
        HasChapters(p) == p.chapters # <<>>
    IN  SelectSeq(all, HasChapters)

----------------------------------------------------------------------------
(* generate_latex_content *)

Braced(cmd, arg) == cmd \o <<"{">> \o arg \o <<"}">>

ChapterLines(part_name, chapters) ==
    Concat([i \in 1..Len(chapters) |->
               << Braced(KwChapter, chapters[i]),
                  Braced(KwInput, IdeasPrefix \o part_name \o <<"/">> \o chapters[i]) >>])

PartLines(p) ==
    <<Braced(KwPart, p.part_name)>> \o ChapterLines(p.part_name, p.chapters) \o << <<>> >>

generate_latex_content(ps) ==
    JoinLines(Concat([i \in 1..Len(ps) |-> PartLines(ps[i])]))

----------------------------------------------------------------------------
(* update_latex_structure *)

\* the index of the last character of the longest run of \s that starts at i
\* (i - 1 when there is none)
WsRunEnd(text, i) ==
    LET stops == {j \in i..(Len(text) + 1) : j = Len(text) + 1 \/ ~IsSpace(text[j])}
    IN  Min(stops) - 1

\* the anchor at k followed by the line break at once
HeaderEndsAtOnce(text, k) ==
    {p \in {k + Len(TocAnchor)} : p <= Len(text) /\ text[p] = NL}

\* where "\tableofcontents\s*\n" can end, for the anchor at k
HeaderEnds(text, k) ==
    {p \in (k + Len(TocAnchor))..WsRunEnd(text, k + Len(TocAnchor)) : text[p] = NL}

EndStarts(text, from) ==
    {e \in from..Len(text) : IsAt(text, e, EndAnchor)}

\* re.search(r'(.*?\\tableofcontents\s*\n)(.*?)(\\end\{document\}.*?)', text,
\* re.DOTALL): the first group is lazy, so the match takes the first anchor
\* that the rest of the pattern can follow; \s* is greedy, so the group ends at
\* the last line break of the white space after the anchor; the second group is
\* lazy, so the third starts at the first \end{document} after that; and the
\* lazy .*? that ends the pattern matches nothing.
re_search_structure(text) ==
    LET Ends(k) == {p \in HeaderEnds(text, k) : EndStarts(text, p + 1) # {}}
        starts == {k \in 1..Len(text) : IsAt(text, k, TocAnchor) /\ Ends(k) # {}}
    IN  IF starts = {}
        THEN [found |-> FALSE, group1 |-> <<>>, group3 |-> <<>>]
        ELSE LET p == Max(Ends(Min(starts)))
                 e == Min(EndStarts(text, p + 1))
             IN  [found |-> TRUE,
                  group1 |-> SubSeq(text, 1, p),
                  group3 |-> SubSeq(text, e, e + Len(EndAnchor) - 1)]

\* updated_content = header + "\n" + new_content_section + "\n\n" + footer
Reconstruct(header, new_content_section, footer) ==
    header \o <<NL>> \o new_content_section \o <<NL, NL>> \o footer

\* The value returned, and the text file as the call leaves it; l is the order
\* in which the directories are iterated.
update_latex_structure(tex_file, ideas_dir, l) ==
    IF ~tex_file.exists
    THEN [ok |-> FALSE, tex |-> tex_file, why |-> "LaTeX file not found"]
    ELSE IF ~ideas_dir.exists
    THEN [ok |-> FALSE, tex |-> tex_file, why |-> "Ideas directory not found"]
    ELSE IF scan_ideas_directory(ideas_dir, l) = <<>>
    THEN [ok |-> FALSE, tex |-> tex_file, why |-> "No content found"]
    ELSE LET m == re_search_structure(tex_file.text)
         IN  IF ~m.found
             THEN [ok |-> FALSE, tex |-> tex_file,
                   why |-> "Could not find content section"]
             ELSE [ok |-> TRUE,
                   tex |-> File(Reconstruct(m.group1,
                               generate_latex_content(scan_ideas_directory(ideas_dir, l)),
                               m.group3)),
                   why |-> "updated"]

----------------------------------------------------------------------------
(* expand_input *)

\* the number of nested expand_input calls the interpreter's recursion limit
\* allows, scaled down: one more call raises RecursionError
MaxDepth == 4

NoMatch == [found |-> FALSE, start |-> 0, stop |-> 0, group1 |-> <<>>]

\* r'\\input\{([^}]+)\}' at position i: "\input{", then the characters up to
\* the first "}", of which there must be at least one
InputMatchAt(text, i) ==
    LET open == i + Len(KwInput) + 1
        closes == {q \in open..Len(text) : text[q] = "}"}
    IN  IF IsAt(text, i, KwInput \o <<"{">>) /\ closes # {} /\ Min(closes) > open
        THEN [found |-> TRUE, start |-> i, stop |-> Min(closes),
              group1 |-> SubSeq(text, open, Min(closes) - 1)]
        ELSE NoMatch

\* the next match re.sub finds, scanning from pos on
FindInput(text, pos) ==
    LET starts == {i \in pos..Len(text) : InputMatchAt(text, i).found}
    IN  IF starts = {} THEN NoMatch ELSE InputMatchAt(text, Min(starts))

\* if not input_file.endswith('.tex'): input_file += '.tex'
NormalizeExt(name) == IF EndsWith(name, TexExt) THEN name ELSE name \o TexExt

\* the comment naming the file as the directive wrote it
NotFoundCommentAsWritten(group1, normalized) == NotFoundPrefix \o group1

\* f"% File not found: {input_file}", input_file being the local that was
\* extended above
NotFoundComment(group1, normalized) == NotFoundPrefix \o normalized

\* the directory of the included file
DirOfIncludedFile(base_dir, input_path) == os_path_dirname(input_path)

\* the base directory handed to the recursive call
NestedBaseDir(base_dir, input_path) == base_dir

\* the text before a match, from the start of the text
AllBefore(text, pos, start) == SubSeq(text, 1, start - 1)

\* the text re.sub copies before a match: from where the last one ended
GapBefore(text, pos, start) == SubSeq(text, pos, start - 1)

\* the file system as open() and os.path.exists() see it
Lookup(path) ==
    IF path = input_file THEN tex
    ELSE IF path \in DOMAIN files THEN files[path]
    ELSE NoFile

Frame(text, base_dir, group1, name, path) ==
    [content |-> text, pos |-> 1, out |-> <<>>, base_dir |-> base_dir,
     group1 |-> group1, input_file |-> name, input_path |-> path]

Top == stack[Len(stack)]
TopMatch == FindInput(Top.content, Top.pos)
TopName == NormalizeExt(TopMatch.group1)
TopPath == os_path_join(Top.base_dir, TopName)

\* the frame after text was appended behind the match instead of in its place
AdvanceKeepingMatch(f, m, text) ==
    [f EXCEPT !.out = f.out \o SubSeq(f.content, f.pos, m.stop) \o text,
              !.pos = m.stop + 1]

\* the frame of the running re.sub after it has passed its current match
\* and appended text to its output
Advance(f, m, text) ==
    [f EXCEPT !.out = f.out \o GapBefore(f.content, f.pos, m.start) \o text,
              !.pos = m.stop + 1]

LogEntry(group1, name, path, base_dir, found, text) ==
    [group1 |-> group1, input_file |-> name, input_path |-> path,
     base_dir |-> base_dir, found |-> found, text |-> text]

\* replace_input on a directive whose file does not exist
ExpandMissing ==
    /\ pc = "expanding" /\ status = "running"
    /\ TopMatch.found
    /\ ~Lookup(TopPath).exists
    /\ LET text == NotFoundComment(TopMatch.group1, TopName)
       IN  /\ stack' = [stack EXCEPT ![Len(stack)] = Advance(Top, TopMatch, text)]
           /\ repl_log' = Append(repl_log,
                  LogEntry(TopMatch.group1, TopName, TopPath, Top.base_dir, FALSE, text))
    /\ stdout' = Append(stdout, <<"Warning: File not found", TopPath>>)
    /\ UNCHANGED <<ideas, tex, files, input_file, out_file, pc, exit_code, content,
                   status, result, parts, runs, tex_hist>>

\* replace_input on a directive whose file exists: read it and call
\* expand_input on its text
ExpandNested ==
    /\ pc = "expanding" /\ status = "running"
    /\ TopMatch.found
    /\ Lookup(TopPath).exists
    /\ Len(stack) < MaxDepth
    /\ stack' = Append([stack EXCEPT ![Len(stack)] = Advance(Top, TopMatch, <<>>)],
                       Frame(Lookup(TopPath).text, NestedBaseDir(Top.base_dir, TopPath),
                             TopMatch.group1, TopName, TopPath))
    /\ UNCHANGED <<ideas, tex, files, input_file, out_file, pc, exit_code, content,
                   status, result, repl_log, stdout, parts, runs, tex_hist>>

\* a recursive call beyond the limit that is given up silently: the directive
\* is dropped and the running re.sub goes on
RecursionLimitSkipped ==
    /\ pc = "expanding" /\ status = "running"
    /\ TopMatch.found
    /\ Lookup(TopPath).exists
    /\ Len(stack) >= MaxDepth
    /\ stack' = [stack EXCEPT ![Len(stack)] = Advance(Top, TopMatch, <<>>)]
    /\ UNCHANGED <<ideas, tex, files, input_file, out_file, pc, exit_code, content,
                   status, result, repl_log, stdout, parts, runs, tex_hist>>

\* the recursive call that exceeds the recursion limit: RecursionError
\* unwinds every call
RecursionLimit ==
    /\ pc = "expanding" /\ status = "running"
    /\ TopMatch.found
    /\ Lookup(TopPath).exists
    /\ Len(stack) >= MaxDepth
    /\ stack' = <<>>
    /\ status' = "RecursionError"
    /\ UNCHANGED <<ideas, tex, files, input_file, out_file, pc, exit_code, content,
                   result, repl_log, stdout, parts, runs, tex_hist>>

\* re.sub finds no further match in an included file: the recursive
\* expand_input returns, and with it replace_input
ReturnNested ==
    /\ pc = "expanding" /\ status = "running"
    /\ Len(stack) > 1
    /\ ~TopMatch.found
    /\ LET text == Top.out \o SubSeq(Top.content, Top.pos, Len(Top.content))
           caller == stack[Len(stack) - 1]
       IN  /\ stack' = [SubSeq(stack, 1, Len(stack) - 1) EXCEPT
                           ![Len(stack) - 1] = [caller EXCEPT !.out = caller.out \o text]]
           /\ repl_log' = Append(repl_log,
                  LogEntry(Top.group1, Top.input_file, Top.input_path, caller.base_dir,
                           TRUE, text))
    /\ UNCHANGED <<ideas, tex, files, input_file, out_file, pc, exit_code, content,
                   status, result, stdout, parts, runs, tex_hist>>

\* re.sub finds no further match in the document: the outermost expand_input
\* returns
ReturnTop ==
    /\ pc = "expanding" /\ status = "running"
    /\ Len(stack) = 1
    /\ ~TopMatch.found
    /\ result' = Top.out \o SubSeq(Top.content, Top.pos, Len(Top.content))
    /\ status' = "returned"
    /\ stack' = <<>>
    /\ UNCHANGED <<ideas, tex, files, input_file, out_file, pc, exit_code, content,
                   repl_log, stdout, parts, runs, tex_hist>>

----------------------------------------------------------------------------
(* main *)

\* sys.argv[2]
output_file == <<"b", "/", "o", ".", "t", "e", "x">>

\* main reads the input file and calls expand_input(content, base_dir); a
\* missing input file raises FileNotFoundError, which ends the run
ReadInput ==
    /\ pc = "read"
    /\ IF tex.exists
       THEN /\ content' = tex.text
            /\ stack' = <<Frame(tex.text, os_path_dirname(input_file), <<>>, <<>>, <<>>)>>
            /\ status' = "running"
            /\ pc' = "expanding"
            /\ UNCHANGED <<exit_code, stdout>>
       ELSE /\ pc' = "exit"
            /\ exit_code' = 1
            /\ stdout' = Append(stdout, <<"Error: Input file not found", input_file>>)
            /\ UNCHANGED <<content, stack, status>>
    /\ UNCHANGED <<ideas, tex, files, input_file, out_file, result, repl_log,
                   parts, runs, tex_hist>>

\* main creates the output directory and writes the expanded text;
\* os.makedirs('') raises when the output path names no directory
WriteOutput ==
    /\ pc = "expanding" /\ status = "returned"
    /\ pc' = "exit"
    /\ IF os_path_dirname(output_file) = <<>>
       THEN /\ exit_code' = 1
            /\ stdout' = Append(stdout, <<"Error", output_file>>)
            /\ UNCHANGED out_file
       ELSE /\ exit_code' = 0
            /\ out_file' = File(result)
            /\ stdout' = Append(stdout, <<"LaTeX file expanded and written", output_file>>)
    /\ UNCHANGED <<ideas, tex, files, input_file, content, stack, status, result,
                   repl_log, parts, runs, tex_hist>>

\* main's "except Exception" on the RecursionError of the expansion
ExpandFailed ==
    /\ pc = "expanding" /\ status = "RecursionError"
    /\ pc' = "exit"
    /\ exit_code' = 1
    /\ stdout' = Append(stdout, <<"Error", <<>> >>)
    /\ UNCHANGED <<ideas, tex, files, input_file, out_file, content, stack, status,
                   result, repl_log, parts, runs, tex_hist>>

\* latex_processor.main, step 1: update the structure, and stop if that fails
UpdateStructure ==
    /\ pc = "update"
    /\ \E l \in (IF ideas.exists THEN Listings(ideas) ELSE {[root |-> <<>>, sub |-> <<>>]}) :
         LET r == update_latex_structure(tex, ideas, l)
         IN  /\ tex' = r.tex
             /\ stdout' = Append(stdout, <<r.why, input_file>>)
             /\ IF r.ok
                THEN /\ pc' = "read"
                     /\ tex_hist' = Append(tex_hist, r.tex)
                     /\ UNCHANGED exit_code
                ELSE /\ pc' = "exit"
                     /\ exit_code' = 1
                     /\ UNCHANGED tex_hist
    /\ UNCHANGED <<ideas, files, input_file, out_file, content, stack, status,
                   result, repl_log, parts, runs>>

\* how many times the script is run
MaxRuns == 2

\* the script is run again, on the files the last run left
Invoke ==
    /\ pc = "exit"
    /\ runs < MaxRuns
    /\ runs' = runs + 1
    /\ pc' = "update"
    /\ content' = <<>>
    /\ stack' = <<>>
    /\ status' = "idle"
    /\ result' = <<>>
    /\ repl_log' = <<>>
    /\ stdout' = <<>>
    /\ UNCHANGED <<ideas, tex, files, input_file, out_file, exit_code, parts, tex_hist>>

\* one call of scan_ideas_directory on the content root; a content root that
\* does not exist raises FileNotFoundError
Scan ==
    /\ pc \in {"scan", "scanned"}
    /\ IF ideas.exists
       THEN /\ \E l \in Listings(ideas) : parts' = scan_ideas_directory(ideas, l)
            /\ pc' = "scanned"
       ELSE /\ pc' = "FileNotFoundError"
            /\ UNCHANGED parts
    /\ UNCHANGED <<ideas, tex, files, input_file, out_file, exit_code, content, stack,
                   status, result, repl_log, stdout, runs, tex_hist>>

----------------------------------------------------------------------------
(* The inputs *)

\* how many entries a part directory holds at most
MaxEntries == 3
\* how many fragments the shell document is made of at most
MaxShellFrags == 4
\* how many fragments the document to expand is made of at most
MaxFrags == 2
\* the same, for the runs that are followed to their end
MaxFairFrags == 1

FileEntry(name) == [name |-> name, kind |-> "file", children |-> {}]
DirEntry(name, children) == [name |-> name, kind |-> "dir", children |-> children]
Dir(entries) == [exists |-> TRUE, entries |-> entries]
NoDir == [exists |-> FALSE, entries |-> {}]

b_tex == <<"b">> \o TexExt
c_tex == <<"c">> \o TexExt
c_txt == <<"c", ".", "t", "x", "t">>
d_tex == <<"d">> \o TexExt

\* what a part directory may hold: chapter files, a file of another type, a
\* file whose whole name is ".tex", and a directory whose name ends in ".tex"
ChildPool ==
    {FileEntry(b_tex), FileEntry(c_tex), FileEntry(c_txt), FileEntry(TexExt),
     DirEntry(d_tex, {})}

PartDirs(name) ==
    {DirEntry(name, ch) : ch \in {c \in SUBSET ChildPool : Cardinality(c) <= MaxEntries}}

\* the content roots of the scans: up to two part directories and a plain file
ScanRoots ==
    {NoDir} \cup
    {Dir(ps \cup qs \cup fs) :
        ps \in {{}} \cup {{d} : d \in PartDirs(<<"p">>)},
        qs \in {{}} \cup {{DirEntry(<<"B">>, ch)} :
                  ch \in {{}, {FileEntry(c_tex)}, {FileEntry(c_txt)},
                          {FileEntry(b_tex), FileEntry(c_tex)}}},
        fs \in {{}, {FileEntry(c_tex)}}}

\* the content roots of the runs of latex_processor.main
PipelineRoots ==
    {NoDir,
     Dir({DirEntry(<<"q">>, {FileEntry(c_txt)})}),
     Dir({DirEntry(<<"p">>, {FileEntry(c_tex)})}),
     Dir({DirEntry(<<"p">>, {FileEntry(c_tex)}), DirEntry(<<"B">>, {FileEntry(c_tex)})})}

RECURSIVE SeqsUpTo(_, _)
SeqsUpTo(S, n) ==
    IF n = 0 THEN {<<>>}
    ELSE SeqsUpTo(S, n - 1) \cup
         {Append(q, x) : q \in {r \in SeqsUpTo(S, n - 1) : Len(r) = n - 1}, x \in S}

ShellFrags == {TocAnchor, EndAnchor, <<NL>>, <<SP>>, <<"H">>}
Shells == {Concat(fr) : fr \in SeqsUpTo(ShellFrags, MaxShellFrags)}

t_tex == <<"t">> \o TexExt
r_t_tex == <<"r", "/">> \o t_tex
chapter_path == <<"r", "/">> \o IdeasPrefix \o <<"p", "/">> \o c_tex

\* the chapter file of the runs: missing, plain text, or including itself
ChapterFiles ==
    {NoFile, File(<<"x">>), File(Braced(KwInput, IdeasPrefix \o <<"p", "/", "c">>))}

DocFrags ==
    {Braced(KwInput, <<"a">>),
     Braced(KwInput, <<"a">> \o TexExt),
     Braced(KwInput, <<"s", "/", "b">>),
     Braced(KwInput, <<"m", NL, "k">>),
     Braced(KwInput, <<"/", "a">>),
     Braced(KwInput, <<>>),
     KwInput \o <<"{">>,
     <<"{", "a", "}">>,
     <<"}">>,
     <<"x">>}
Docs == {Concat(fr) : fr \in SeqsUpTo(DocFrags, MaxFrags)}

FairDocFrags ==
    {Braced(KwInput, <<"a">>),
     Braced(KwInput, <<"s", "/", "b">>),
     Braced(KwInput, <<"m">>),
     <<"{", "a", "}">>,
     <<"x">>}
FairDocs == {Concat(fr) : fr \in SeqsUpTo(FairDocFrags, MaxFairFrags)}

a_tex == <<"a">> \o TexExt
s_a_tex == <<"s", "/">> \o a_tex
s_b_tex == <<"s", "/">> \o b_tex

\* the files beside the document to expand, by their path under the base
\* directory: a.tex is missing, holds the bare keyword, includes s/b or
\* includes itself; s/b.tex is missing, holds plain text or includes a;
\* s/a.tex is missing or holds plain text
ExpandFileSystems ==
    {[p \in {a_tex, s_a_tex, s_b_tex} |->
         IF p = a_tex THEN fa ELSE IF p = s_b_tex THEN fb ELSE fc] :
        fa \in {NoFile, File(KwInput),
                File(<<"y">> \o Braced(KwInput, <<"s", "/", "b">>)),
                File(Braced(KwInput, <<"a">>) \o <<"z">>)},
        fb \in {NoFile, File(<<"w">>), File(Braced(KwInput, <<"a">>) \o <<"z">>)},
        fc \in {NoFile, File(<<"v">>)}}

Under(base, f) == [p \in {os_path_join(base, q) : q \in DOMAIN f} |->
                      f[CHOOSE q \in DOMAIN f : os_path_join(base, q) = p]]

Idle ==
    /\ out_file = NoFile
    /\ exit_code = -1
    /\ content = <<>>
    /\ stack = <<>>
    /\ status = "idle"
    /\ result = <<>>
    /\ repl_log = <<>>
    /\ stdout = <<>>
    /\ parts = <<>>
    /\ tex_hist = <<tex>>

----------------------------------------------------------------------------
(* latex_processor.py, run MaxRuns times on a shell document *)

Init ==
    /\ ideas \in PipelineRoots
    /\ tex \in {NoFile} \cup {File(t) : t \in Shells}
    /\ files \in [{chapter_path} -> ChapterFiles]
    /\ input_file = r_t_tex
    /\ pc = "update"
    /\ runs = 1
    /\ Idle

Next ==
    \/ UpdateStructure
    \/ ReadInput
    \/ ExpandMissing
    \/ ExpandNested
    \/ RecursionLimit
    \/ ReturnNested
    \/ ReturnTop
    \/ WriteOutput
    \/ ExpandFailed
    \/ Invoke

Spec == Init /\ [][Next]_vars

(* expand_latex.py, run once on a document *)

InitExpand ==
    /\ ideas = NoDir
    /\ input_file \in {t_tex, r_t_tex}
    /\ \/ /\ tex \in {File(t) : t \in Docs}
          /\ files \in {Under(os_path_dirname(input_file), f) : f \in ExpandFileSystems}
       \/ /\ tex = NoFile
          /\ files = Under(os_path_dirname(input_file), [p \in {a_tex} |-> NoFile])
    /\ pc = "read"
    /\ runs = 1
    /\ Idle

NextExpand ==
    \/ ReadInput
    \/ ExpandMissing
    \/ ExpandNested
    \/ RecursionLimit
    \/ ReturnNested
    \/ ReturnTop
    \/ WriteOutput
    \/ ExpandFailed

SpecExpand == InitExpand /\ [][NextExpand]_vars

(* expand_latex.py, run to its end on a document of few directives: the
   script is one sequential process that nothing suspends *)

InitFairExpand ==
    /\ ideas = NoDir
    /\ input_file = r_t_tex
    /\ tex \in {File(t) : t \in FairDocs}
    /\ files \in {Under(os_path_dirname(input_file), f) : f \in ExpandFileSystems}
    /\ pc = "read"
    /\ runs = 1
    /\ Idle

FairSpecExpand == InitFairExpand /\ [][NextExpand]_vars /\ WF_vars(NextExpand)

(* scan_ideas_directory, called on a content root *)

InitScan ==
    /\ ideas \in ScanRoots
    /\ tex = NoFile
    /\ files = [p \in {a_tex} |-> NoFile]
    /\ input_file = t_tex
    /\ pc = "scan"
    /\ runs = 1
    /\ Idle

NextScan == Scan

SpecScan == InitScan /\ [][NextScan]_vars

----------------------------------------------------------------------------
(* Properties of the scan *)

\* a file with the recognized extension: a name that ends in ".tex" after a
\* stem that is not empty
IsChapterFile(f) ==
    f.kind = "file" /\ EndsWith(f.name, TexExt) /\ Len(f.name) > Len(TexExt)

NonEmptyPartDirs ==
    {d \in ideas.entries : d.kind = "dir" /\ \E f \in d.children : IsChapterFile(f)}

Ascending(names) ==
    \A i \in 1..(Len(names) - 1) : StrLess(names[i], names[i + 1])

\* C7: every scan of a content root returns exactly the subdirectories that
\* hold at least one file with the recognized extension, in strictly ascending
\* order of name, each with the stems of exactly its qualifying files in
\* ascending order of file name, whatever order the directories are iterated in.
C7_ScanIsSortedNonEmptyParts ==
    pc = "scanned" =>
        /\ {parts[i].part_name : i \in 1..Len(parts)} = {d.name : d \in NonEmptyPartDirs}
        /\ Ascending([i \in 1..Len(parts) |-> parts[i].part_name])
        /\ \A i \in 1..Len(parts) :
             LET d == CHOOSE e \in NonEmptyPartDirs : e.name = parts[i].part_name
                 ch == parts[i].chapters
             IN  /\ {ch[k] \o TexExt : k \in 1..Len(ch)} =
                        {f.name : f \in {g \in d.children : IsChapterFile(g)}}
                 /\ Ascending([k \in 1..Len(ch) |-> ch[k] \o TexExt])

\* a scan that returned two parts, one of them with two chapters, from a
\* directory that also holds an entry that is no chapter file
C7_Witness ==
    /\ pc = "scanned"
    /\ Len(parts) = 2
    /\ \E i \in 1..Len(parts) : Len(parts[i].chapters) = 2
    /\ \E d \in NonEmptyPartDirs : \E f \in d.children : ~IsChapterFile(f)

----------------------------------------------------------------------------
(* Properties of the structure update *)

HasAnchor(text, anchor) == \E k \in 1..Len(text) : IsAt(text, k, anchor)

\* a table-of-contents anchor is followed by a document-end anchor
AnchorsInOrder(text) ==
    \E k \in 1..Len(text) :
        /\ IsAt(text, k, TocAnchor)
        /\ \E e \in (k + Len(TocAnchor))..Len(text) : IsAt(text, e, EndAnchor)

\* a table-of-contents anchor that ends its line (white space may follow it),
\* with a document-end anchor after it
AnchorsOnLines(text) ==
    \E k \in 1..Len(text) :
        /\ IsAt(text, k, TocAnchor)
        /\ \E p \in (k + Len(TocAnchor))..Len(text) :
              /\ text[p] = NL
              /\ \A j \in (k + Len(TocAnchor))..p : IsSpace(text[j])
              /\ \E e \in (p + 1)..Len(text) : IsAt(text, e, EndAnchor)

\* the structure update of the current run has failed
UpdateFailed == stdout # <<>> /\ stdout[1][1] # "updated"
Rejected == stdout # <<>> /\ stdout[1][1] = "Could not find content section"

\* C1: a second structure update on an unchanged content root leaves the shell
\* document exactly as the first update left it.
C1_SecondUpdateChangesNothing ==
    Len(tex_hist) >= 3 => tex_hist[3] = tex_hist[2]

\* C2: the updated document begins with the original text up to and including
\* the first table-of-contents anchor and ends with the original text from the
\* first document-end anchor after it onward, whatever follows that anchor.
C2_TextOutsideAnchorsKept ==
    (Len(tex_hist) >= 2 /\ AnchorsInOrder(tex_hist[1].text)) =>
        LET old == tex_hist[1].text
            new == tex_hist[2].text
            k == Min({i \in 1..Len(old) : IsAt(old, i, TocAnchor)})
            e == Min({i \in (k + Len(TocAnchor))..Len(old) : IsAt(old, i, EndAnchor)})
        IN  /\ IsAt(new, 1, SubSeq(old, 1, k + Len(TocAnchor) - 1))
            /\ EndsWith(new, SubSeq(old, e, Len(old)))

\* what a failed structure update leaves: the shell document as it was, no
\* expansion, no output file, a non-zero exit status
FailureStopsTheRun ==
    UpdateFailed =>
        /\ pc = "exit"
        /\ exit_code = 1
        /\ status = "idle"
        /\ out_file = NoFile
        /\ tex_hist = <<tex>>

\* a shell document that is missing or lacks an anchor, or a content root
\* without a part, makes the update fail
BadInputFails ==
    (/\ pc # "update"
     /\ \/ ~tex_hist[1].exists
        \/ ~HasAnchor(tex_hist[1].text, TocAnchor)
        \/ ~HasAnchor(tex_hist[1].text, EndAnchor)
        \/ ~ideas.exists
        \/ NonEmptyPartDirs = {})
    => UpdateFailed

\* C3, as stated: structural failures stop the run before anything is
\* written, and a shell document that holds the table-of-contents anchor
\* followed by the document-end anchor is never rejected.
C3_AnchorsInOrderNeverRejected ==
    /\ FailureStopsTheRun
    /\ BadInputFails
    /\ Rejected => ~AnchorsInOrder(tex.text)

\* C3, amended: structural failures stop the run before anything is written,
\* and a shell document is rejected for its anchors exactly when it holds no
\* table-of-contents anchor that ends its line (followed by nothing but white
\* space up to a line break) with a document-end anchor after it.
C3_FailureStopsRunAndRejectsOnlyUnanchored ==
    /\ FailureStopsTheRun
    /\ BadInputFails
    /\ Rejected => ~AnchorsOnLines(tex.text)
    /\ (pc # "update" /\ tex.exists /\ ideas.exists /\ NonEmptyPartDirs # {}
            /\ ~AnchorsOnLines(tex_hist[1].text))
        => Rejected

\* a run that was stopped because the shell document has no document-end anchor
C3_Witness ==
    /\ Rejected
    /\ pc = "exit"
    /\ HasAnchor(tex.text, TocAnchor)
    /\ ~HasAnchor(tex.text, EndAnchor)

----------------------------------------------------------------------------
(* Properties of the expansion *)

\* the base directory of the outermost call: os.path.dirname(input_file)
base0 == os_path_dirname(input_file)

ResolvedPath(group1) == os_path_join(base0, NormalizeExt(group1))

\* the directives of a text: the matches of the pattern, left to right,
\* none overlapping another
RECURSIVE Directives(_, _)
Directives(text, pos) ==
    LET m == FindInput(text, pos)
    IN  IF m.found THEN <<m>> \o Directives(text, m.stop + 1) ELSE <<>>

\* the files a text includes
Includes(text) ==
    {ResolvedPath(Directives(text, 1)[i].group1) : i \in 1..Len(Directives(text, 1))}

AllPaths == DOMAIN files \cup {input_file}

\* the existing files that the file at path includes
IncludedBy(path) == {q \in Includes(Lookup(path).text) : Lookup(q).exists}

RECURSIVE ReachableIn(_, _)
ReachableIn(from, n) ==
    IF n = 0 THEN from
    ELSE ReachableIn(from \cup UNION {IncludedBy(q) : q \in from}, n - 1)

\* the files reachable from S by one include or more
ReachablePlus(S) == ReachableIn(UNION {IncludedBy(q) : q \in S}, Cardinality(AllPaths))

\* some file reachable from the document is reachable from itself
IncludeCycle ==
    \E q \in {input_file} \cup ReachablePlus({input_file}) : q \in ReachablePlus({q})

\* The pieces the expanded text is made of, in order: the text between the
\* directives, and for each directive the pieces of its file, or its comment.
RECURSIVE Pieces(_, _)
Pieces(text, pos) ==
    LET m == FindInput(text, pos)
    IN  IF ~m.found THEN <<SubSeq(text, pos, Len(text))>>
        ELSE <<SubSeq(text, pos, m.start - 1)>>
             \o (IF Lookup(ResolvedPath(m.group1)).exists
                 THEN Pieces(Lookup(ResolvedPath(m.group1)).text, 1)
                 ELSE <<NotFoundPrefix \o NormalizeExt(m.group1)>>)
             \o Pieces(text, m.stop + 1)

\* where in the concatenation of the pieces one piece ends and the next begins
RECURSIVE Cuts(_, _)
Cuts(ps, before) ==
    IF ps = <<>> THEN {}
    ELSE {before + Len(Head(ps))} \cup Cuts(Tail(ps), before + Len(Head(ps)))

AllFound == \A i \in 1..Len(repl_log) : repl_log[i].found

\* C4, as stated: when every referenced file exists, the returned text
\* contains no occurrence of the include directive.
C4_NoDirectiveInResult ==
    (status = "returned" /\ AllFound) =>
        \A i \in 1..Len(result) : ~InputMatchAt(result, i).found

\* C4, amended: when every referenced file exists, the returned text is the
\* text between the directives of the document and of the included files, each
\* file's text in the place of its directive, and no piece of it holds a
\* directive: an occurrence of the directive in the returned text always
\* spans the place where the text of a file meets the text around it.
C4_NoDirectiveWithinAPiece ==
    (status = "returned" /\ AllFound) =>
        /\ result = Concat(Pieces(content, 1))
        /\ \A i \in 1..Len(result) :
             InputMatchAt(result, i).found =>
                 \E c \in Cuts(Pieces(content, 1), 0) :
                     i <= c /\ c < InputMatchAt(result, i).stop

\* a returned expansion of a document that includes a file that includes a file
C4_Witness ==
    /\ status = "returned"
    /\ AllFound
    /\ \E i \in 1..Len(repl_log) :
         /\ repl_log[i].found
         /\ \E q \in IncludedBy(repl_log[i].input_path) : Lookup(q).exists

HasLineBreak(text) == \E i \in 1..Len(text) : text[i] = NL

Contains(text, sub) == \E i \in 1..(Len(text) + 1) : IsAt(text, i, sub)

\* C5: a directive whose file does not exist raises nothing and is replaced by
\* one single-line comment that contains the file name as the directive wrote
\* it, and the expansion of the other directives goes on.
C5_MissingFileGivesOneCommentLine ==
    \A i \in 1..Len(repl_log) :
        ~repl_log[i].found =>
            /\ IsAt(repl_log[i].text, 1, <<"%">>)
            /\ Contains(repl_log[i].text, repl_log[i].group1)
            /\ ~HasLineBreak(repl_log[i].text)
            /\ status \in {"running", "returned"} \/ IncludeCycle

C8_ExtensionIsNormalized ==
    \A i, j \in 1..Len(repl_log) :
        (/\ ~EndsWith(repl_log[i].group1, TexExt)
         /\ repl_log[j].group1 = repl_log[i].group1 \o TexExt)
        => /\ repl_log[i].input_path = repl_log[j].input_path
           /\ repl_log[i].text = repl_log[j].text
           /\ repl_log[i].found = repl_log[j].found

\* both spellings replaced in one expansion, the file missing
C8_Witness ==
    \E i, j \in 1..Len(repl_log) :
        /\ ~EndsWith(repl_log[i].group1, TexExt)
        /\ repl_log[j].group1 = repl_log[i].group1 \o TexExt
        /\ ~repl_log[i].found

\* the text with each directive, from left to right, replaced by its own
\* replacement, and the rest kept
RECURSIVE Substituted(_)
Substituted(text) ==
    LET m == FindInput(text, 1)
    IN  IF ~m.found THEN text
        ELSE SubSeq(text, 1, m.start - 1)
             \o (IF Lookup(ResolvedPath(m.group1)).exists
                 THEN Substituted(Lookup(ResolvedPath(m.group1)).text)
                 ELSE NotFoundPrefix \o NormalizeExt(m.group1))
             \o Substituted(SubSeq(text, m.stop + 1, Len(text)))

\* C9: the returned text is the document with each directive, from left to
\* right, replaced by its own replacement and every other character kept in
\* place; a replacement is not scanned again with the text around it; a
\* document without a directive is returned as it is.
C9_SubstitutionInPlace ==
    status = "returned" =>
        /\ result = Substituted(content)
        /\ ~FindInput(content, 1).found => result = content

\* a returned expansion in which a replacement and the text behind it read as
\* a directive, which was left alone
C9_Witness ==
    /\ status = "returned"
    /\ Len(repl_log) >= 1
    /\ FindInput(result, 1).found
    /\ AllFound

\* C10: at every depth the directive is resolved against the base directory
\* of the outermost call, not against the directory of the including file.
C10_BaseDirIsTheRootAtEveryDepth ==
    /\ \A i \in 1..Len(stack) :
         /\ stack[i].base_dir = base0
         /\ i > 1 => stack[i].input_path = os_path_join(base0, NormalizeExt(stack[i].group1))
    /\ \A i \in 1..Len(repl_log) :
         /\ repl_log[i].base_dir = base0
         /\ repl_log[i].input_path = os_path_join(base0, NormalizeExt(repl_log[i].group1))

\* a file in the subdirectory s names a by its bare name, and the a of the
\* base directory is what is read, while s holds an a of its own
C10_Witness ==
    /\ Len(stack) >= 3
    /\ stack[Len(stack) - 1].input_path = os_path_join(base0, s_b_tex)
    /\ stack[Len(stack)].group1 = <<"a">>
    /\ stack[Len(stack)].input_path = os_path_join(base0, a_tex)
    /\ Lookup(os_path_join(base0, s_a_tex)).exists

====
